---- MODULE Spec2Model ----
(***************************************************************************)
(* Model of the kakao-qr-api request handler (src/src/core.rs).            *)
(*                                                                         *)
(* Handler::serve validates a request (method, X-API-KEY, type, size),     *)
(* takes the Cache mutex, refreshes the token when it is stale (soft       *)
(* refresh, then hard refresh with a browser login) and answers with the   *)
(* token as text or as a cached PNG rendering.  Every .await of serve and   *)
(* generate_token is a step boundary; the code between two awaits is one   *)
(* action.                                                                 *)
(***************************************************************************)
EXTENDS Integers, Sequences, FiniteSets, TLC

\* ------------------------------------------------------------------ bounds

\* Number of connections whose requests are served concurrently.
NumTasks == 2

\* The wall clock advances in steps of ClockStep seconds up to MaxTime.
ClockStep == 7
MaxTime == 28

\* ------------------------------------------------------------ constants

DEFAULT_PNG_SIZE == 256

TOKEN_EXPIRES == 14

U16_MAX == 65535

Tasks == 1..NumTasks

\* No task: the value of a free mutex.
Free == 0

\* ------------------------------------------------------- request alphabet

\* Strings that are parsed are sequences of characters.
Digits == {"0", "1", "2", "3", "4", "5", "6", "7", "8", "9"}

DigitVal(c) ==
    CASE c = "0" -> 0 [] c = "1" -> 1 [] c = "2" -> 2 [] c = "3" -> 3
      [] c = "4" -> 4 [] c = "5" -> 5 [] c = "6" -> 6 [] c = "7" -> 7
      [] c = "8" -> 8 [] c = "9" -> 9

\* str::parse::<u16>(): an optional leading '+', then one or more decimal
\* digits whose value fits in 16 bits.  A '-' is no digit for an unsigned
\* type.  The result is [ok, val].
ParseErr == [ok |-> FALSE, val |-> 0]

RECURSIVE ParseDigits(_, _)
ParseDigits(s, acc) ==
    IF s = << >> THEN [ok |-> TRUE, val |-> acc]
    ELSE IF Head(s) \notin Digits THEN ParseErr
    ELSE LET v == acc * 10 + DigitVal(Head(s))
         IN  IF v > U16_MAX THEN ParseErr ELSE ParseDigits(Tail(s), v)

ParseU16(s) ==
    IF s = << >> THEN ParseErr
    ELSE IF Head(s) \in {"+", "-"} /\ Len(s) = 1 THEN ParseErr
    ELSE IF Head(s) = "+" THEN ParseDigits(Tail(s), 0)
    ELSE ParseDigits(s, 0)

\* The query string after url::form_urlencoded::parse: a sequence of
\* (key, value) pairs.  Collecting into a HashMap keeps, for each key, the
\* value of its last pair.
Absent == [some |-> FALSE, v |-> << >>]

RECURSIVE params_get(_, _)
params_get(query, key) ==
    IF query = << >> THEN Absent
    ELSE LET last == query[Len(query)]
         IN  IF last.k = key THEN [some |-> TRUE, v |-> last.v]
             ELSE params_get(SubSeq(query, 1, Len(query) - 1), key)

\* The X-API-KEY header as serve reads it: the header's text, or "" when
\* the header is absent or HeaderValue::to_str refuses its bytes.
x_api_key(header) ==
    IF header.kind = "ascii" THEN header.value ELSE ""

Header(kind, value) == [kind |-> kind, value |-> value]

NoHeader == Header("absent", "")

Pair(k, v) == [k |-> k, v |-> v]

Request(method, header, query) ==
    [method |-> method, header |-> header, query |-> query]

NoRequest == Request("", NoHeader, << >>)

PNG == <<"p", "n", "g">>

TXT == <<"t", "x", "t">>

\* ------------------------------------------------------------- responses

NOT_FOUND == 404

UNAUTHORIZED == 401

BAD_REQUEST == 400

INTERNAL_SERVER_ERROR == 500

OK == 200

\* A response body: empty, the token as text, or the PNG that encodes
\* `payload` at `size` pixels.
Body(kind, payload, size) == [kind |-> kind, payload |-> payload, size |-> size]

EmptyBody == Body("empty", "", 0)

TextBody(tok) == Body("text", tok, 0)

\* qrcode_generator::to_png_to_vec(token, QrCodeEcc::Medium, size) when it
\* succeeds: a function of the token and the size alone.
to_png_to_vec(tok, size) == Body("png", tok, size)

\* ------------------------------------------------------------ validation

\* serve up to the Cache lock (lines 136-175).  status 0: the request goes
\* on to the Cache with png_mode and png_size; otherwise it is answered
\* with status at once.
Gate(status, mode, size) == [status |-> status, png_mode |-> mode, png_size |-> size]

Reject(status) == Gate(status, FALSE, 0)

\* The key check after the type check.
ValidateKeyAfterType(key, rq) ==
    LET type == params_get(rq.query, "type")
        size == params_get(rq.query, "size")
    IN  IF rq.method # "GET" THEN Reject(NOT_FOUND)
        ELSE IF type.some /\ type.v \notin {PNG, TXT} THEN Reject(BAD_REQUEST)
        ELSE IF x_api_key(rq.header) # key THEN Reject(UNAUTHORIZED)
        ELSE IF ~(type.some /\ type.v = PNG) THEN Gate(0, FALSE, DEFAULT_PNG_SIZE)
        ELSE IF ~size.some THEN Gate(0, TRUE, DEFAULT_PNG_SIZE)
        ELSE IF ParseU16(size.v).ok THEN Gate(0, TRUE, ParseU16(size.v).val)
        ELSE Reject(BAD_REQUEST)

\* The key check before the method check.
ValidateKeyFirst(key, rq) ==
    LET type == params_get(rq.query, "type")
        size == params_get(rq.query, "size")
    IN  IF x_api_key(rq.header) # key THEN Reject(UNAUTHORIZED)
        ELSE IF rq.method # "GET" THEN Reject(NOT_FOUND)
        ELSE IF type.some /\ type.v \notin {PNG, TXT} THEN Reject(BAD_REQUEST)
        ELSE IF ~(type.some /\ type.v = PNG) THEN Gate(0, FALSE, DEFAULT_PNG_SIZE)
        ELSE IF ~size.some THEN Gate(0, TRUE, DEFAULT_PNG_SIZE)
        ELSE IF ParseU16(size.v).ok THEN Gate(0, TRUE, ParseU16(size.v).val)
        ELSE Reject(BAD_REQUEST)

\* An unknown type taken as text.
ValidateAnyType(key, rq) ==
    LET type == params_get(rq.query, "type")
        size == params_get(rq.query, "size")
    IN  IF rq.method # "GET" THEN Reject(NOT_FOUND)
        ELSE IF x_api_key(rq.header) # key THEN Reject(UNAUTHORIZED)
        ELSE IF ~(type.some /\ type.v = PNG) THEN Gate(0, FALSE, DEFAULT_PNG_SIZE)
        ELSE IF ~size.some THEN Gate(0, TRUE, DEFAULT_PNG_SIZE)
        ELSE IF ParseU16(size.v).ok THEN Gate(0, TRUE, ParseU16(size.v).val)
        ELSE Reject(BAD_REQUEST)

Validate(key, rq) ==
    IF rq.method # "GET" THEN Reject(NOT_FOUND)
    ELSE IF x_api_key(rq.header) # key THEN Reject(UNAUTHORIZED)
    ELSE
      LET type == params_get(rq.query, "type")
          size == params_get(rq.query, "size")
      IN  IF type.some /\ type.v \notin {PNG, TXT} THEN Reject(BAD_REQUEST)
          ELSE IF ~(type.some /\ type.v = PNG) THEN Gate(0, FALSE, DEFAULT_PNG_SIZE)
          ELSE IF ~size.some THEN Gate(0, TRUE, DEFAULT_PNG_SIZE)
          ELSE IF ParseU16(size.v).ok THEN Gate(0, TRUE, ParseU16(size.v).val)
          ELSE Reject(BAD_REQUEST)

\* ----------------------------------------------------------------- state

VARIABLES
    api_key,       \* cfg.api_key
    clock,         \* SystemTime::now(), in seconds since Handler::new
    expires,       \* cache.expires
    token,         \* cache.token
    map,           \* cache.map: png_size -> rendered PNG
    cache_lock,    \* the task that holds Handler.cache, or Free
    browser_lock,  \* the task that holds Handler.browser, or Free
    pc,            \* per task: the await at which its serve call stands
    req,           \* per task: the request being served
    png_mode,      \* per task: serve's png_mode
    png_size,      \* per task: serve's png_size
    now,           \* per task: serve's now
    do_login,      \* per task: the argument of its generate_token call
    \* history variables
    ops,           \* what the request holding the Cache has called so far
    before,        \* cache.token and cache.expires when it took the Cache
    tries,         \* the results of its generate_token calls
    lead,          \* the latest refresh attempt and the requests queued behind it
    invoked,       \* sizes the renderer was called with since the last map.clear()
    served,        \* size -> PNG answered with 200 since the last map.clear()
    window,        \* the token text answered with 200 under the current expires
    derived,       \* when the token held was obtained, while the record is valid
    response,      \* the response written by the step just taken, if any
    started        \* the refresh begun by the step just taken, if any

cacheVars == <<expires, token, map>>

lockVars == <<cache_lock, browser_lock>>

taskVars == <<pc, req, png_mode, png_size, now, do_login>>

histVars == <<ops, before, tries, lead, invoked, served, window, derived>>

outVars == <<response, started>>

vars == <<api_key, clock, cacheVars, lockVars, taskVars, histVars, outVars>>

\* Values the upstream qr_data field can carry; the empty string is one.
Tokens == {"", "a", "b"}

\* Errors of generate_token.
HandlerError == {"BadStatusCode", "CannotFindToken", "ReqwestError", "FailureError"}

EmptyMap == [s \in {} |-> EmptyBody]

None == [some |-> FALSE, v |-> EmptyBody]

Some(b) == [some |-> TRUE, v |-> b]

NoTry == [called |-> FALSE, ok |-> FALSE, val |-> ""]

Try(ok, val) == [called |-> TRUE, ok |-> ok, val |-> val]

NoTries == [soft |-> NoTry, hard |-> NoTry]

NoLead == [now |-> 0, state |-> "none", token |-> "", behind |-> {}]

\* A refresh begins: after "ok" or "failed" when its request had queued
\* behind a refresh that ended so, begun at afterNow; after "none" otherwise.
NoStart == [task |-> Free, now |-> 0, after |-> "none", afterNow |-> 0]

\* The latest refresh matters while it runs and while requests that queued
\* behind it have not yet taken the Cache.
Settle(ld) == IF ld.state # "running" /\ ld.behind = {} THEN NoLead ELSE ld

NoResp ==
    [task |-> Free, req |-> NoRequest, status |-> 0, body |-> EmptyBody,
     png_mode |-> FALSE, png_size |-> 0, now |-> 0, ops |-> {},
     before |-> [token |-> "", expires |-> 0],
     after |-> [token |-> "", expires |-> 0, map |-> EmptyMap],
     tries |-> NoTries, behind |-> FALSE, lead |-> NoLead,
     again |-> FALSE, tried |-> FALSE, prevPng |-> None, prevText |-> None]

\* The step just taken wrote no response and began no refresh.
Silent == response' = NoResp /\ started' = NoStart

\* Handler::new: the cache starts empty and already at its expiry instant;
\* both mutexes are free.
Init ==
    /\ api_key \in {"k", ""}
    /\ clock = 0
    /\ expires = 0
    /\ token = ""
    /\ map = EmptyMap
    /\ cache_lock = Free
    /\ browser_lock = Free
    /\ pc = [r \in Tasks |-> "idle"]
    /\ req = [r \in Tasks |-> NoRequest]
    /\ png_mode = [r \in Tasks |-> FALSE]
    /\ png_size = [r \in Tasks |-> 0]
    /\ now = [r \in Tasks |-> 0]
    /\ do_login = [r \in Tasks |-> FALSE]
    /\ ops = {}
    /\ before = [token |-> "", expires |-> 0]
    /\ tries = NoTries
    /\ lead = NoLead
    /\ invoked = {}
    /\ served = EmptyMap
    /\ window = [expires |-> 0, text |-> None]
    /\ derived = 0
    /\ response = NoResp
    /\ started = NoStart

\* ---------------------------------------------------------------- helpers

\* contains_key that never finds the key.
contains_key_never(m, k) == FALSE

\* HashMap::contains_key (line 213)
contains_key(m, k) == k \in DOMAIN m

\* A test that takes every token for the empty one.
is_empty_always(tok) == TRUE

\* cache.token == "" (lines 185 and 189)
is_empty(tok) == tok = ""

\* A clear that leaves the map as it is.
clear_nothing(m) == m

\* HashMap::clear (line 183)
clear(m) == EmptyMap

\* HashMap::insert (line 228)
Insert(m, k, v) == [s \in DOMAIN m \cup {k} |-> IF s = k THEN v ELSE m[s]]

\* A rendering that is stored whether or not the renderer succeeded.
rendered_always(m, size, tok, ok) == Insert(m, size, to_png_to_vec(tok, size))

\* serve, lines 214-228: the map after the renderer was called for size; a
\* failed rendering returns before the insert.
rendered(m, size, tok, ok) ==
    IF ok THEN Insert(m, size, to_png_to_vec(tok, size)) ELSE m

\* A serve call has returned: its task is ready for the next request.
Returned(r) ==
    /\ pc' = [pc EXCEPT ![r] = "idle"]
    /\ req' = [req EXCEPT ![r] = NoRequest]
    /\ png_mode' = [png_mode EXCEPT ![r] = FALSE]
    /\ png_size' = [png_size EXCEPT ![r] = 0]
    /\ now' = [now EXCEPT ![r] = 0]
    /\ do_login' = [do_login EXCEPT ![r] = FALSE]
    /\ ops' = {}
    /\ before' = [token |-> "", expires |-> 0]
    /\ tries' = NoTries

\* The staleness test with <= for <.
StaleInclusive(exp, t) == exp <= t

\* cache.expires < now (line 182)
Stale(exp, t) == exp < t

\* The time at which the token held was obtained from the upstream, kept
\* while the record is not stale at time t.
Derived(exp, t) == IF Stale(exp, t) THEN 0 ELSE t

\* An expiry of twice the TTL.
NewExpiresTwice(t) == t + TOKEN_EXPIRES + TOKEN_EXPIRES

\* The expiry without the TTL.
NewExpiresNow(t) == t

\* now + Duration::from_secs_f32(TOKEN_EXPIRES) (line 199)
NewExpires(t) == t + TOKEN_EXPIRES

\* serve, lines 203-242, with the Cache held: answer with the token as text,
\* or with the PNG of png_size, rendered and inserted when the map has none.
\* tok, exp, mp: the cache as the refresh left it; t: serve's now;
\* render_ok: whether to_png_to_vec succeeds if it is called; o, b, tr, ld,
\* bh: the history to record.  Dropping `cache` on return frees the lock.
Reply(r, tok, exp, mp, t, render_ok, o, b, tr, ld, bh) ==
    LET size == png_size[r]
        render == png_mode[r] /\ ~contains_key(mp, size)
        mp2 == IF render THEN rendered(mp, size, tok, render_ok) ELSE mp
        status == IF render /\ ~render_ok THEN INTERNAL_SERVER_ERROR ELSE OK
        body == IF status # OK THEN EmptyBody
                ELSE IF png_mode[r] THEN mp2[size] ELSE TextBody(tok)
    IN  /\ map' = mp2
        /\ cache_lock' = Free
        /\ Returned(r)
        /\ invoked' = IF render THEN invoked \cup {size} ELSE invoked
        /\ served' = IF png_mode[r] /\ status = OK
                       THEN Insert(served, size, body) ELSE served
        /\ window' = IF ~png_mode[r]
                       THEN [expires |-> exp, text |-> Some(body)] ELSE window
        /\ started' = NoStart
        /\ response' =
             [task |-> r, req |-> req[r], status |-> status, body |-> body,
              png_mode |-> png_mode[r], png_size |-> size, now |-> t,
              ops |-> IF render THEN o \cup {"render"} ELSE o,
              before |-> b,
              after |-> [token |-> tok, expires |-> exp, map |-> mp2],
              tries |-> tr, behind |-> bh, lead |-> ld,
              again |-> render /\ size \in invoked,
              tried |-> png_mode[r] /\ size \in invoked,
              prevPng |-> IF png_mode[r] /\ size \in DOMAIN served
                            THEN Some(served[size]) ELSE None,
              prevText |-> IF ~png_mode[r] /\ window.expires = exp
                             THEN window.text ELSE None]

\* A failed hard refresh that advances the expiry all the same.
RefreshFailedAdvances(r, tr, ld) ==
    /\ cache_lock' = Free
    /\ Returned(r)
    /\ started' = NoStart
    /\ response' =
         [NoResp EXCEPT !.task = r, !.req = req[r],
                        !.status = INTERNAL_SERVER_ERROR,
                        !.png_mode = png_mode[r], !.png_size = png_size[r],
                        !.now = now[r], !.ops = ops, !.before = before,
                        !.after = [token |-> token, expires |-> NewExpires(now[r]),
                                   map |-> map],
                        !.tries = tr, !.lead = ld]
    /\ expires' = NewExpires(now[r])
    /\ UNCHANGED <<token, map, invoked, served, window, derived>>

\* A failed hard refresh that does not return but answers from the cache as
\* it stands.
RefreshFailedServes(r, tr, ld) ==
    /\ Reply(r, token, expires, map, now[r], TRUE, ops, before, tr, ld, FALSE)
    /\ UNCHANGED <<expires, token, derived>>

\* A failed hard refresh that answers 500 and keeps the Cache guard.
RefreshFailedKeepsLock(r, tr, ld) ==
    /\ Returned(r)
    /\ started' = NoStart
    /\ response' =
         [NoResp EXCEPT !.task = r, !.req = req[r],
                        !.status = INTERNAL_SERVER_ERROR,
                        !.png_mode = png_mode[r], !.png_size = png_size[r],
                        !.now = now[r], !.ops = ops, !.before = before,
                        !.after = [token |-> token, expires |-> expires, map |-> map],
                        !.tries = tr, !.lead = ld]
    /\ UNCHANGED <<cache_lock, expires, token, map, invoked, served, window,
                   derived>>

\* serve, lines 192-195: the hard refresh failed; answer 500 and drop the
\* Cache as it stands.
RefreshFailed(r, tr, ld) ==
    /\ cache_lock' = Free
    /\ Returned(r)
    /\ started' = NoStart
    /\ response' =
         [NoResp EXCEPT !.task = r, !.req = req[r],
                        !.status = INTERNAL_SERVER_ERROR,
                        !.png_mode = png_mode[r], !.png_size = png_size[r],
                        !.now = now[r], !.ops = ops, !.before = before,
                        !.after = [token |-> token, expires |-> expires, map |-> map],
                        !.tries = tr, !.lead = ld]
    /\ UNCHANGED <<expires, token, map, invoked, served, window, derived>>

\* generate_token returns res = [ok, val] to serve.
\* do_login = false (line 186): the token becomes the value, or "" on an
\* error; an empty token goes on to generate_token(true) (lines 189-190),
\* which waits for the browser.
\* do_login = true (lines 190-196): the browser guard is dropped; Ok(x) is
\* stored, Err answers 500.  After either success: line 199, then the reply.
GenReturn(r, res, render_ok) ==
    IF ~do_login[r]
      THEN LET tok1 == IF res.ok THEN res.val ELSE ""
               tr == [tries EXCEPT !.soft = Try(res.ok, res.val)]
           IN  IF is_empty(tok1)
                 THEN /\ token' = tok1
                      /\ pc' = [pc EXCEPT ![r] = "browser_wait"]
                      /\ do_login' = [do_login EXCEPT ![r] = TRUE]
                      /\ ops' = ops \cup {"hard"}
                      /\ tries' = tr
                      /\ Silent
                      /\ UNCHANGED <<expires, map, lockVars, req, png_mode,
                                     png_size, now, before, lead, invoked,
                                     served, window, derived>>
                 ELSE LET ld == [lead EXCEPT !.state = "ok", !.token = tok1]
                      IN  /\ token' = tok1
                          /\ expires' = NewExpires(now[r])
                          /\ derived' = Derived(NewExpires(now[r]), clock)
                          /\ lead' = Settle(ld)
                          /\ Reply(r, tok1, NewExpires(now[r]), map, now[r],
                                   render_ok, ops, before, tr, ld, FALSE)
                          /\ UNCHANGED browser_lock
      ELSE LET tr == [tries EXCEPT !.hard = Try(res.ok, res.val)]
           IN  /\ browser_lock' = Free
               /\ IF res.ok
                    THEN LET ld == [lead EXCEPT !.state = "ok", !.token = res.val]
                         IN  /\ token' = res.val
                             /\ expires' = NewExpires(now[r])
                             /\ derived' = Derived(NewExpires(now[r]), clock)
                             /\ lead' = Settle(ld)
                             /\ Reply(r, res.val, NewExpires(now[r]), map, now[r],
                                      render_ok, ops, before, tr, ld, FALSE)
                    ELSE LET ld == [lead EXCEPT !.state = "failed"]
                         IN  /\ lead' = Settle(ld)
                             /\ RefreshFailed(r, tr, ld)

Err == [ok |-> FALSE, val |-> ""]

Ok(v) == [ok |-> TRUE, val |-> v]

\* --------------------------------------------------------------- actions

\* A rejection that is decided with the Cache held.
RejectUnderLock(r, rq, status) ==
    /\ cache_lock = Free
    /\ response' = [NoResp EXCEPT !.task = r, !.req = rq, !.status = status]
    /\ started' = NoStart
    /\ UNCHANGED <<api_key, clock, cacheVars, lockVars, taskVars, histVars>>

\* serve, lines 136-175: the early returns; the request is answered with the
\* status alone, before self.cache is named.
RejectNow(r, rq, status) ==
    /\ response' = [NoResp EXCEPT !.task = r, !.req = rq, !.status = status]
    /\ started' = NoStart
    /\ UNCHANGED <<api_key, clock, cacheVars, lockVars, taskVars, histVars>>

\* serve, lines 109-179: a request arrives on connection r and is checked.
\* A rejected request is answered at once; an accepted one waits for the
\* Cache.
Serve(r, rq) ==
    /\ pc[r] = "idle"
    /\ LET g == Validate(api_key, rq)
       IN  IF g.status # 0
             THEN RejectNow(r, rq, g.status)
             ELSE /\ pc' = [pc EXCEPT ![r] = "cache_wait"]
                  /\ req' = [req EXCEPT ![r] = rq]
                  /\ png_mode' = [png_mode EXCEPT ![r] = g.png_mode]
                  /\ png_size' = [png_size EXCEPT ![r] = g.png_size]
                  /\ lead' = IF lead.state = "running"
                               THEN [lead EXCEPT !.behind = @ \cup {r}] ELSE lead
                  /\ Silent
                  /\ UNCHANGED <<api_key, clock, cacheVars, lockVars, now, do_login,
                                 ops, before, tries, invoked, served, window,
                                 derived>>

\* serve, lines 179-190: r takes the Cache.  A stale cache
\* is cleared and refreshed: generate_token(false) when a token is held
\* (it runs to its first fetch), generate_token(true) otherwise (it waits
\* for the browser).  A cache that is not stale is answered from at once.
Locked(r, render_ok) ==
    /\ pc[r] = "cache_wait"
    /\ IF Stale(expires, clock)
         THEN /\ cache_lock' = r
              /\ now' = [now EXCEPT ![r] = clock]
              /\ map' = clear(map)
              /\ invoked' = {}
              /\ served' = EmptyMap
              /\ before' = [token |-> token, expires |-> expires]
              /\ lead' = [now |-> clock, state |-> "running", token |-> "",
                          behind |-> {q \in Tasks \ {r} : pc[q] = "cache_wait"}]
              /\ started' = [task |-> r, now |-> clock,
                             after |-> IF r \in lead.behind THEN lead.state ELSE "none",
                             afterNow |-> IF r \in lead.behind THEN lead.now ELSE 0]
              /\ response' = NoResp
              /\ IF ~is_empty(token)
                   THEN /\ do_login' = [do_login EXCEPT ![r] = FALSE]
                        /\ pc' = [pc EXCEPT ![r] = "check_in"]
                        /\ ops' = {"soft"}
                   ELSE /\ do_login' = [do_login EXCEPT ![r] = TRUE]
                        /\ pc' = [pc EXCEPT ![r] = "browser_wait"]
                        /\ ops' = {"hard"}
              /\ UNCHANGED <<api_key, clock, expires, token, browser_lock, req,
                             png_mode, png_size, tries, window, derived>>
         ELSE /\ lead' = Settle([lead EXCEPT !.behind = @ \ {r}])
              /\ Reply(r, token, expires, map, clock, render_ok, {},
                       [token |-> token, expires |-> expires], NoTries, lead,
                       r \in lead.behind)
              /\ UNCHANGED <<api_key, clock, expires, token, browser_lock, derived>>

\* Taking the Cache without waiting for it to be free.
LockNoWait(r, render_ok) == Locked(r, render_ok)

\* Mutex::lock (line 179): the caller is suspended until the Cache is free.
Lock(r, render_ok) ==
    /\ cache_lock = Free
    /\ Locked(r, render_ok)

\* generate_token, line 247: the browser is free and r takes it; the login
\* (lines 250-283) begins.
BrowserLock(r) ==
    /\ pc[r] = "browser_wait"
    /\ browser_lock = Free
    /\ browser_lock' = r
    /\ pc' = [pc EXCEPT ![r] = "login"]
    /\ ops' = ops \cup {"login"}
    /\ Silent
    /\ UNCHANGED <<api_key, clock, cacheVars, cache_lock, req, png_mode, png_size,
                   now, do_login, before, tries, lead, invoked, served, window,
                   derived>>

\* generate_token, lines 250-293: the login ends.  Any failing step returns
\* a FailureError; otherwise the check-in page is requested.
Login(r, ok) ==
    /\ pc[r] = "login"
    /\ IF ok
         THEN /\ pc' = [pc EXCEPT ![r] = "check_in"]
              /\ Silent
              /\ UNCHANGED <<api_key, clock, cacheVars, lockVars, req, png_mode,
                             png_size, now, do_login, histVars>>
         ELSE /\ GenReturn(r, Err, FALSE)
              /\ UNCHANGED <<api_key, clock>>

\* generate_token, lines 293-309: the check-in page answers.  A transport
\* error, a status other than 200 or a body without the token pattern
\* returns the error; otherwise the qr data is requested.
CheckIn(r, outcome) ==
    /\ pc[r] = "check_in"
    /\ IF outcome = "ok"
         THEN /\ pc' = [pc EXCEPT ![r] = "qr_data"]
              /\ Silent
              /\ UNCHANGED <<api_key, clock, cacheVars, lockVars, req, png_mode,
                             png_size, now, do_login, histVars>>
         ELSE /\ GenReturn(r, Err, FALSE)
              /\ UNCHANGED <<api_key, clock>>

\* generate_token, lines 309-317: the qr data answers, with the qr_data
\* field or with an error.
QrData(r, res, render_ok) ==
    /\ pc[r] = "qr_data"
    /\ GenReturn(r, res, render_ok)
    /\ UNCHANGED <<api_key, clock>>

\* Time passes.
Tick ==
    /\ clock + ClockStep <= MaxTime
    /\ clock' = clock + ClockStep
    /\ derived' = IF Stale(expires, clock') THEN 0 ELSE derived
    /\ Silent
    /\ UNCHANGED <<api_key, cacheVars, lockVars, taskVars, ops, before, tries, lead,
                   invoked, served, window>>

\* ------------------------------------------------------------- requests

Key == Header("ascii", "k")

Size(digits) == Pair("size", digits)

Type(v) == Pair("type", v)

\* The requests of the refresh model: text, PNG at the default size and at
\* a given size, and one request for each rejection.
CoreRequests ==
    { Request("GET", Key, << >>),
      Request("GET", Key, <<Type(PNG)>>),
      Request("GET", Key, <<Type(PNG), Size(<<"7">>)>>),
      Request("GET", Key, <<Type(<<"j", "p", "g">>)>>),
      Request("GET", Header("ascii", "x"), <<Type(PNG)>>),
      Request("POST", Key, << >>) }

\* The requests of the validation model.
Methods == {"GET", "POST"}

Headers ==
    { NoHeader, Key, Header("ascii", "x"), Header("ascii", ""),
      Header("opaque", "k") }

SizeTexts ==
    { << >>, <<"0">>, <<"7">>, <<"+", "7">>, <<"-", "7">>, <<"+">>, <<"7", "a">>,
      <<"6", "5", "5", "3", "5">>, <<"6", "5", "5", "3", "6">> }

Queries ==
    { << >>, <<Type(TXT)>>, <<Type(PNG)>>, <<Type(<< >>)>>,
      <<Type(<<"P", "N", "G">>)>>, <<Type(<<"j", "p", "g">>)>>,
      <<Size(<<"7", "a">>)>>, <<Type(TXT), Size(<<"0">>)>>,
      <<Type(<<"j", "p", "g">>), Size(<<"7">>)>>,
      <<Type(TXT), Type(PNG)>>, <<Type(PNG), Type(<<"j", "p", "g">>)>>,
      <<Size(<<"7">>), Type(PNG), Size(<<"7", "a">>)>>,
      <<Pair("other", PNG)>> }
    \cup { <<Type(PNG), Size(t)>> : t \in SizeTexts }

\* Every method and header with a few queries, and every query with the
\* method and header that pass.
Requests ==
    { Request(m, h, q) :
        m \in Methods, h \in Headers,
        q \in { << >>, <<Type(PNG)>>, <<Type(<<"j", "p", "g">>)>>,
                <<Type(PNG), Size(<<"7", "a">>)>> } }
    \cup { Request("GET", Key, q) : q \in Queries }

Results == {Ok(v) : v \in Tokens} \cup {Err}

Next ==
    \/ \E r \in Tasks, rq \in CoreRequests : Serve(r, rq)
    \/ \E r \in Tasks, render_ok \in BOOLEAN : Lock(r, render_ok)
    \/ \E r \in Tasks : BrowserLock(r)
    \/ \E r \in Tasks, ok \in BOOLEAN : Login(r, ok)
    \/ \E r \in Tasks, outcome \in {"ok"} \cup (HandlerError \ {"FailureError"}) :
         CheckIn(r, outcome)
    \/ \E r \in Tasks, res \in Results, render_ok \in BOOLEAN : QrData(r, res, render_ok)
    \/ Tick

Spec == Init /\ [][Next]_vars

\* The validation model: one connection, and every request of Requests
\* arriving while the Cache is empty (no token, no rendering).
GateTask == CHOOSE r \in Tasks : \A q \in Tasks : r <= q

NextGate ==
    \/ \E rq \in Requests : token = "" /\ map = EmptyMap /\ Serve(GateTask, rq)
    \/ \E render_ok \in BOOLEAN : Lock(GateTask, render_ok)
    \/ BrowserLock(GateTask)
    \/ \E ok \in BOOLEAN : Login(GateTask, ok)
    \/ \E outcome \in {"ok"} \cup (HandlerError \ {"FailureError"}) :
         CheckIn(GateTask, outcome)
    \/ \E res \in Results, render_ok \in BOOLEAN : QrData(GateTask, res, render_ok)
    \/ Tick

SpecGate == Init /\ [][NextGate]_vars

\* What the runtime and the timeouts the code sets guarantee: the Cache
\* mutex does not starve a waiting task, the browser mutex is taken when it
\* is free, and the login ends, the tab's operations being bounded by
\* set_default_timeout (line 251).  The client of lines 84-88 sets no
\* timeout: nothing makes a fetch end.
SchedulingFairness ==
    /\ \A r \in Tasks : SF_vars(\E render_ok \in BOOLEAN : Lock(r, render_ok))
    /\ \A r \in Tasks : WF_vars(BrowserLock(r))
    /\ \A r \in Tasks : WF_vars(\E ok \in BOOLEAN : Login(r, ok))

\* The upstream answers every fetch, with a page, a status or an error.
UpstreamAnswers ==
    /\ \A r \in Tasks :
         WF_vars(\E outcome \in {"ok"} \cup (HandlerError \ {"FailureError"}) :
                   CheckIn(r, outcome))
    /\ \A r \in Tasks :
         WF_vars(\E res \in Results, render_ok \in BOOLEAN : QrData(r, res, render_ok))

\* The requests of the progress model: text and PNG.
LiveRequests ==
    { Request("GET", Key, << >>),
      Request("GET", Key, <<Type(PNG)>>) }

NextLive ==
    \/ \E r \in Tasks, rq \in LiveRequests : Serve(r, rq)
    \/ \E r \in Tasks, render_ok \in BOOLEAN : Lock(r, render_ok)
    \/ \E r \in Tasks : BrowserLock(r)
    \/ \E r \in Tasks, ok \in BOOLEAN : Login(r, ok)
    \/ \E r \in Tasks, outcome \in {"ok"} \cup (HandlerError \ {"FailureError"}) :
         CheckIn(r, outcome)
    \/ \E r \in Tasks, res \in Results, render_ok \in BOOLEAN : QrData(r, res, render_ok)
    \/ Tick

SpecTimeouts == Init /\ [][NextLive]_vars /\ SchedulingFairness

SpecAnswered == Init /\ [][NextLive]_vars /\ SchedulingFairness /\ UpstreamAnswers

\* ---------------------------------------------------------------- claims

Responded == response.task # Free

InFlight(r) == pc[r] # "idle"

RefreshOps == {"soft", "hard", "login"}

\* A step that answers with `status` leaves the Cache, both locks, every
\* task and the refresh history as they were.
AnswersOutside(status) ==
    response'.status = status
        => UNCHANGED <<cacheVars, lockVars, taskVars, histVars>>

\* C1, as claimed: no request that queued behind a refresh begins a refresh
\* of its own, and every such request answers with the token that refresh
\* obtained.
SingleFlight ==
    /\ started.after = "none"
    /\ response.behind /\ response.status = OK
         => response.body.payload = response.lead.token

\* C1, amended: a request that queued behind a refresh that succeeded, and
\* that checks staleness no later than TOKEN_EXPIRES after the refreshing
\* request read the clock, makes no refresh call of its own and answers
\* with the token that refresh stored; a request begins its own refresh
\* only after a failed refresh or later than that.
SingleFlightWithinTTL ==
    /\ started.after = "ok" => started.now > started.afterNow + TOKEN_EXPIRES
    /\ response.behind
         => /\ response.lead.state = "ok"
            /\ response.now <= response.lead.now + TOKEN_EXPIRES
            /\ response.ops \cap RefreshOps = {}
            /\ token = response.lead.token
            /\ response.status = OK => response.body.payload = response.lead.token

SingleFlightWitness ==
    /\ response.behind
    /\ response.status = OK
    /\ response.lead.token # ""
    /\ response.now > response.lead.now

\* The soft refresh of the answered request failed and its hard refresh
\* returned a value.
FallbackCase ==
    /\ Responded
    /\ response.tries.soft.called
    /\ ~response.tries.soft.ok
    /\ response.tries.hard.ok

\* C2, as claimed: after a failed soft refresh and a hard refresh that
\* returned v, the token is v, expires is now + TOKEN_EXPIRES and the
\* request is answered 200 with v.
FallbackAnswers200 ==
    FallbackCase
        => /\ token = response.tries.hard.val
           /\ expires = response.now + TOKEN_EXPIRES
           /\ response.status = OK
           /\ response.body.payload = response.tries.hard.val

\* C2, amended: after a failed soft refresh and a hard refresh that
\* returned v, the token is v and expires is now + TOKEN_EXPIRES; a text
\* request is answered 200 with v, a PNG request 200 with the rendering of
\* v, or 500 when the renderer fails.
FallbackSuccess ==
    FallbackCase
        => /\ token = response.tries.hard.val
           /\ expires = response.now + TOKEN_EXPIRES
           /\ IF response.status = OK
                THEN response.body =
                       IF response.png_mode
                         THEN Body("png", response.tries.hard.val, response.png_size)
                         ELSE Body("text", response.tries.hard.val, 0)
                ELSE /\ response.status = INTERNAL_SERVER_ERROR
                     /\ response.png_mode
                     /\ "render" \in response.ops
                     /\ response.png_size \notin DOMAIN map

FallbackWitness ==
    /\ FallbackCase
    /\ response.status = OK
    /\ response.tries.hard.val # ""
    /\ response.before.token \notin {"", response.tries.hard.val}

\* Both the soft and the hard refresh of the answered request failed.
DoubleFailure ==
    /\ Responded
    /\ response.tries.soft.called
    /\ ~response.tries.soft.ok
    /\ response.tries.hard.called
    /\ ~response.tries.hard.ok

\* C3, as claimed: after a double failure expires and the token are what
\* they were before the request.
RecordUntouched ==
    DoubleFailure
        => /\ expires = response.before.expires
           /\ token = response.before.token

\* C3, amended: after a double failure the answer is 500 and expires is
\* what it was before the request, but the token the record held is gone:
\* the failed soft refresh left the empty token, and the map is empty.
DoubleFailureEmpties ==
    DoubleFailure
        => /\ response.status = INTERNAL_SERVER_ERROR
           /\ expires = response.before.expires
           /\ response.before.token # ""
           /\ token = ""
           /\ map = EmptyMap

DoubleFailureWitness ==
    /\ DoubleFailure
    /\ response.before.expires > 0
    /\ response.now > response.before.expires

\* C4: a text request answered 200 under the same expires as an earlier
\* text request answered 200 carries the same text.
TextIdempotent ==
    response.status = OK /\ ~response.png_mode /\ response.prevText.some
        => response.body = response.prevText.v

TextIdempotentWitness ==
    /\ response.status = OK
    /\ ~response.png_mode
    /\ response.prevText.some
    /\ response.body.payload # ""
    /\ response.ops = {}

\* C5, as claimed: the renderer is never called for a size it was already
\* called for since the last map.clear().
RenderOncePerSize ==
    /\ ~response.again
    /\ response.png_mode /\ response.prevPng.some
         => response.body = response.prevPng.v

\* C5, amended: a PNG request at a size that was answered 200 since the
\* last map.clear() is answered 200 with the same bytes and without a call
\* of the renderer, so the renderer succeeds at most once per size between
\* two clears.
ArtifactCoherence ==
    response.png_mode /\ response.prevPng.some
        => /\ response.status = OK
           /\ response.body = response.prevPng.v
           /\ "render" \notin response.ops

ArtifactCoherenceWitness ==
    /\ response.png_mode
    /\ response.prevPng.some
    /\ response.status = OK
    /\ response.body.payload # ""
    /\ response.png_size # DEFAULT_PNG_SIZE

\* The query parameters of a request as serve reads them.
TypeOf(rq) == params_get(rq.query, "type")

SizeOf(rq) == params_get(rq.query, "size")

Rejected == Responded /\ response.status \in {NOT_FOUND, UNAUTHORIZED, BAD_REQUEST}

\* The X-API-KEY header is absent or is not the configured key.
KeyMissing(rq) ==
    \/ rq.header.kind # "ascii"
    \/ rq.header.value # api_key

\* The text serve compares with the configured key differs from it: the
\* header's text, or the empty text for an absent or unreadable header.
KeyDiffers(rq) ==
    \/ rq.header.kind = "ascii" /\ rq.header.value # api_key
    \/ rq.header.kind # "ascii" /\ api_key # ""

\* The request passed the method and the key check.
Passed(rq) == rq.method = "GET" /\ ~KeyDiffers(rq)

ApiKeyGateState ==
    /\ Responded /\ response.req.method = "GET" /\ KeyDiffers(response.req)
         => /\ response.status = UNAUTHORIZED
            /\ response.ops = {}
            /\ pc[response.task] = "idle"
            /\ cache_lock # response.task
    /\ \A r \in Tasks : InFlight(r) => ~KeyDiffers(req[r])

MethodGate ==
    /\ Responded /\ response.req.method # "GET" => response.status = NOT_FOUND
    /\ \A r \in Tasks : InFlight(r) => req[r].method = "GET"

MethodGateWitness ==
    /\ response.status = NOT_FOUND
    /\ response.req.method = "POST"
    /\ KeyDiffers(response.req)
    /\ TypeOf(response.req).some
    /\ TypeOf(response.req).v \notin {PNG, TXT}

ModeValidationState ==
    /\ Responded /\ Passed(response.req)
         => LET type == TypeOf(response.req)
            IN  /\ type.some /\ type.v \notin {PNG, TXT}
                   => response.status = BAD_REQUEST
                /\ ~type.some \/ type.v = TXT
                   => /\ ~Rejected
                      /\ ~response.png_mode
                      /\ response.status = OK => response.body.kind = "text"
                /\ type.some /\ type.v = PNG /\ response.status # BAD_REQUEST
                   => /\ response.png_mode
                      /\ response.status = OK => response.body.kind = "png"
    /\ Rejected
         => /\ response.ops = {}
            /\ pc[response.task] = "idle"
            /\ cache_lock # response.task
    /\ \A r \in Tasks :
         InFlight(r)
            => LET type == TypeOf(req[r])
               IN  /\ Passed(req[r])
                   /\ type.some => type.v \in {PNG, TXT}
                   /\ png_mode[r] = (type.some /\ type.v = PNG)

\* C8: a request that passed the method and key checks is answered 400
\* when its type is neither png nor txt nor absent; txt or no type is
\* answered as text, png as an image; a 400 is written by a step that
\* leaves the Cache and the locks untouched.
ModeValidation == []ModeValidationState /\ [][AnswersOutside(BAD_REQUEST)]_vars

ModeValidationWitness ==
    /\ response.status = BAD_REQUEST
    /\ Passed(response.req)
    /\ TypeOf(response.req).v = <<"P", "N", "G">>
    /\ Stale(expires, clock)

\* A size text that is a positive integer within the range of u16.
ValidSize(t) == ParseU16(t).ok /\ ParseU16(t).val >= 1

\* C9, as claimed: a PNG request that passed the earlier checks goes on to
\* the Cache only with a size that is absent (then 256) or a positive
\* integer within range; any other size is answered 400.
SizeValidation ==
    /\ Responded /\ Passed(response.req)
         /\ TypeOf(response.req) = [some |-> TRUE, v |-> PNG]
         /\ SizeOf(response.req).some /\ ~ValidSize(SizeOf(response.req).v)
         => response.status = BAD_REQUEST
    /\ \A r \in Tasks :
         InFlight(r) /\ png_mode[r]
            => IF SizeOf(req[r]).some
                 THEN /\ ValidSize(SizeOf(req[r]).v)
                      /\ png_size[r] = ParseU16(SizeOf(req[r]).v).val
                 ELSE png_size[r] = DEFAULT_PNG_SIZE

RefreshPcs == {"browser_wait", "login", "check_in", "qr_data"}

\* C10: at most one request is inside the refresh, and it holds the Cache;
\* at most one login is in progress; the browser is held only by the
\* holder of the Cache, inside generate_token(true).
MutualExclusion ==
    /\ Cardinality({r \in Tasks : pc[r] \in RefreshPcs}) <= 1
    /\ Cardinality({r \in Tasks : pc[r] = "login"}) <= 1
    /\ \A r \in Tasks : pc[r] \in RefreshPcs => cache_lock = r
    /\ browser_lock # Free
         => /\ browser_lock = cache_lock
            /\ do_login[browser_lock]
            /\ pc[browser_lock] \in {"login", "check_in", "qr_data"}
    /\ \A r \in Tasks : pc[r] = "login" => browser_lock = r

MutualExclusionWitness ==
    \E r, q \in Tasks :
        /\ r # q
        /\ pc[r] = "login"
        /\ browser_lock = r
        /\ pc[q] = "cache_wait"
        /\ Stale(expires, clock)

\* C11: while the Cache lock is free every entry of the map is the
\* rendering of the token held, at the size of its key; the map is empty
\* when a refresh begins and stays empty while it runs; a 200 image is the
\* rendering of the token held.
ArtifactsCurrent ==
    /\ cache_lock = Free
         => \A s \in DOMAIN map : map[s] = Body("png", token, s)
    /\ started.task # Free => map = EmptyMap
    /\ \A r \in Tasks : pc[r] \in RefreshPcs => map = EmptyMap
    /\ Responded /\ response.tries.hard.called /\ ~response.tries.hard.ok
         => map = EmptyMap
    /\ response.status = OK /\ response.png_mode
         => response.body = Body("png", token, response.png_size)

ArtifactsCurrentWitness ==
    /\ response.status = OK
    /\ response.png_mode
    /\ response.ops = {"soft", "render"}
    /\ response.before.token \notin {"", token}
    /\ cache_lock = Free

HardFailed ==
    /\ Responded
    /\ response.status = INTERNAL_SERVER_ERROR
    /\ response.tries.hard.called
    /\ ~response.tries.hard.ok

\* No token is held, the record is stale and nobody holds the Cache.
Unrefreshed == token = "" /\ Stale(expires, clock) /\ cache_lock = Free

RetryState ==
    /\ HardFailed => Unrefreshed
    /\ response.status = OK /\ response.ops \cap RefreshOps # {}
         => response.tries.soft.ok \/ response.tries.hard.ok

RetryStep ==
    Unrefreshed =>
      \/ Unrefreshed' /\ response'.status # OK
      \/ /\ cache_lock' # Free
         /\ started'.task = cache_lock'
         /\ pc'[cache_lock'] = "browser_wait"
         /\ do_login'[cache_lock']

\* C12: a failed hard refresh leaves no token, a stale record and a free
\* Cache; from such a state no step answers 200, and the first request to
\* take the Cache begins the hard refresh again; a request that refreshed
\* is answered 200 only when one of its refreshes succeeded.
RetryAfterFailure == []RetryState /\ [][RetryStep]_vars

RetryAfterFailureWitness ==
    /\ started.task # Free
    /\ started.after = "failed"
    /\ pc[started.task] = "browser_wait"
    /\ token = ""

RefreshedResponse == Responded /\ response.ops \cap RefreshOps # {}

SoftEmpty(t) == t.soft.called /\ (~t.soft.ok \/ t.soft.val = "")

\* C13, as claimed: a login is performed only when no prior token existed
\* or the soft refresh of the same request failed, and a request whose soft
\* refresh succeeds performs no login.
TieringAsClaimed ==
    RefreshedResponse =>
      /\ "login" \in response.ops
           => \/ response.before.token = ""
              \/ response.tries.soft.called /\ ~response.tries.soft.ok
      /\ response.tries.soft.ok => "login" \notin response.ops

TieringInFlight ==
    \A r \in Tasks :
      /\ pc[r] \in RefreshPcs /\ ~do_login[r]
           => before.token # "" /\ ops = {"soft"} /\ ~tries.soft.called
      /\ pc[r] \in RefreshPcs /\ do_login[r]
           => /\ "hard" \in ops
              /\ token = ""
              /\ tries.soft.called <=> before.token # ""
              /\ tries.soft.called => SoftEmpty(tries)
              /\ "soft" \in ops <=> tries.soft.called

\* C13: a refresh tries the soft tier first exactly when a token was held;
\* it logs in only when no token was held or the soft tier failed or
\* returned the empty string; a soft tier that returns a non-empty token is
\* followed by no login; with no token held the soft tier is skipped and a
\* 200 carries exactly the value of the hard tier.
Tiering ==
    /\ TieringInFlight
    /\ RefreshedResponse =>
         LET t == response.tries
             b == response.before
         IN  /\ t.soft.called <=> b.token # ""
             /\ "soft" \in response.ops <=> t.soft.called
             /\ "hard" \in response.ops <=> t.hard.called \/ "login" \in response.ops
             /\ "hard" \in response.ops => b.token = "" \/ SoftEmpty(t)
             /\ t.soft.ok /\ t.soft.val # ""
                  => /\ response.ops \cap {"hard", "login"} = {}
                     /\ response.after.token = t.soft.val
             /\ b.token = "" /\ response.status = OK
                  => /\ ~t.soft.called
                     /\ t.hard.ok
                     /\ response.after.token = t.hard.val
                     /\ token = t.hard.val
                     /\ response.body.payload = t.hard.val

TieringWitness ==
    /\ response.status = OK
    /\ response.tries.soft.ok
    /\ response.tries.soft.val = ""
    /\ "login" \in response.ops
    /\ response.tries.hard.ok
    /\ response.body.payload = response.tries.hard.val
    /\ response.body.payload # ""

\* A request answered from the Cache without a refresh of its own.
Skipped == Responded /\ response.status = OK /\ response.ops \cap RefreshOps = {}

RefreshSucceeded ==
    /\ RefreshedResponse
    /\ \/ response.tries.soft.ok /\ response.tries.soft.val # ""
       \/ response.tries.hard.ok

\* C14, as claimed: expires is set to now + TTL when a refresh succeeds and
\* also when a request skips the refresh because the cached value is still
\* valid.
ExpirySetOnSkip ==
    RefreshSucceeded \/ (Skipped /\ response.before.token # "")
      => expires = response.now + TOKEN_EXPIRES

ExpiryState ==
    /\ RefreshSucceeded => expires = response.now + TOKEN_EXPIRES
    /\ Skipped => expires = response.before.expires
    /\ HardFailed => expires = response.before.expires

ExpiryStep ==
    expires' # expires => RefreshSucceeded' /\ expires' = response'.now + TOKEN_EXPIRES

\* C14: expires is set to now + TTL, now being the time the request read
\* before its refresh, exactly when a refresh succeeds; a request that skips
\* the refresh and a request whose refresh fails leave expires as it was.
ExpiryRule == []ExpiryState /\ [][ExpiryStep]_vars

ExpiryRuleWitness ==
    /\ Skipped
    /\ token # ""
    /\ response.now > expires - TOKEN_EXPIRES
    /\ expires = response.before.expires

RenderFailed ==
    /\ Responded
    /\ response.status = INTERNAL_SERVER_ERROR
    /\ "render" \in response.ops

RenderFailureState ==
    /\ Responded /\ response.png_mode /\ response.status = INTERNAL_SERVER_ERROR
         /\ (response.tries.hard.called => response.tries.hard.ok)
         => RenderFailed
    /\ RenderFailed
         => /\ response.png_mode
            /\ response.body = EmptyBody
            /\ response.png_size \notin DOMAIN map
            /\ response.after.map = map
            /\ cache_lock = Free
            /\ browser_lock = Free
            /\ pc[response.task] = "idle"
    /\ Responded /\ response.tried /\ ~response.prevPng.some
         => "render" \in response.ops /\ response.again

\* C15: a failed rendering answers 500 with the map exactly as it was before
\* the renderer was called and with the Cache free; a later image request
\* of a size whose renderings have all failed calls the renderer again.
RenderFailureIsolated ==
    []RenderFailureState /\ [][RenderFailed' => map' = map /\ cache_lock' = Free]_vars

RenderFailureIsolatedWitness ==
    /\ response.status = OK
    /\ response.png_mode
    /\ response.again
    /\ ~response.prevPng.some
    /\ response.ops = {"render"}
    /\ map # EmptyMap

ClientErrorState ==
    /\ Rejected
         => /\ pc[response.task] = "idle"
            /\ cache_lock # response.task
            /\ response.body = EmptyBody
            /\ response.ops = {}
    /\ \A r \in Tasks, rq \in CoreRequests :
         pc[r] = "idle" /\ Validate(api_key, rq).status # 0
           => ENABLED Serve(r, rq)

ClientErrorStep ==
    Rejected' => UNCHANGED <<cacheVars, lockVars, taskVars, histVars>>

\* C16: a request answered 404, 401 or 400 changes neither the cache record
\* nor a lock nor any request in flight, and it can be answered in every
\* state in which its connection is idle, whoever holds the Cache.
ClientErrorsOutsideCache == []ClientErrorState /\ [][ClientErrorStep]_vars

ClientErrorsOutsideCacheWitness ==
    /\ Rejected
    /\ response.status = NOT_FOUND
    /\ cache_lock \in Tasks \ {response.task}
    /\ pc[cache_lock] = "qr_data"

\* C17, as claimed: every external step ends, so whoever holds the Cache
\* releases it and every request waiting for the Cache is answered, whether
\* or not the upstream answers.
BoundedExternalSteps ==
    \A r \in Tasks :
      /\ (cache_lock = r) ~> (cache_lock # r)
      /\ (pc[r] = "cache_wait") ~> (response.task = r)

\* C18, as claimed, for the values the upstream may return: a request whose
\* refresh succeeded is answered 200 only with a token that is not empty,
\* and a record a refresh has made valid holds a token that is not empty.
EmptyNeverServed ==
    /\ RefreshSucceeded /\ response.status = OK
         => token # "" /\ response.body.payload # ""
    /\ RefreshSucceeded /\ ~Stale(expires, clock) => token # ""

\* A request answered after it took the Cache.
Answered == Responded /\ response.status \in {OK, INTERNAL_SERVER_ERROR}

LockState ==
    /\ browser_lock # Free => cache_lock = browser_lock
    /\ \A r \in Tasks :
         /\ cache_lock = r => pc[r] \in RefreshPcs
         /\ pc[r] \in RefreshPcs => cache_lock = r
         /\ browser_lock = r => pc[r] \in {"login", "check_in", "qr_data"} /\ do_login[r]
         /\ pc[r] = "login" => browser_lock = r
         /\ pc[r] = "cache_wait" => cache_lock # r /\ browser_lock # r
    /\ Answered => cache_lock = Free /\ browser_lock = Free

\* C19: the browser lock is held only by the holder of the Cache lock; a
\* task holds a lock only while its refresh runs, and both locks are free
\* after every answer, 200 or 500; when every fetch is answered, every
\* request waiting for the Cache is answered.
LockDiscipline ==
    /\ []LockState
    /\ \A r \in Tasks : (pc[r] = "cache_wait") ~> (Answered /\ response.task = r)

LockDisciplineWitness ==
    /\ Answered
    /\ response.status = INTERNAL_SERVER_ERROR
    /\ response.tries.hard.called
    /\ cache_lock = Free
    /\ \E q \in Tasks \ {response.task} : pc[q] = "cache_wait"

\* C20: a request answered from a record it found valid serves a token that
\* was obtained from the upstream, or held since the start, at most
\* TOKEN_EXPIRES before the request read its now; and the token was obtained
\* no earlier than the now from which expires was computed.
BoundedTokenAge ==
    /\ Skipped
         => /\ response.now - derived <= TOKEN_EXPIRES
            /\ derived <= response.now
            /\ response.body.payload = token
    /\ ~Stale(expires, clock) /\ cache_lock = Free
         => /\ clock - derived <= TOKEN_EXPIRES
            /\ expires <= derived + TOKEN_EXPIRES

BoundedTokenAgeWitness ==
    /\ Skipped
    /\ token # ""
    /\ response.now = expires
    /\ derived > expires - TOKEN_EXPIRES
    /\ response.now - derived < TOKEN_EXPIRES

====
